---- MODULE Spec2Model ----
(***************************************************************************)
(* A model of the containers under include/: the segmented deque of        *)
(* deque/deque.h and the array stack of stack/stack.h.                     *)
(*                                                                         *)
(* Memory is modelled explicitly.  A segment is an allocation of           *)
(* block_size element cells, an index ("map") is an allocation of          *)
(* map_size slots.  Element pointers are records [seg, off], index         *)
(* pointers are records [map, idx].  A read the language leaves undefined  *)
(* (an unwritten slot, a slot outside the array, a slot of a released      *)
(* array) yields a value the action chooses nondeterministically.          *)
(***************************************************************************)
EXTENDS Integers, Sequences, FiniteSets, TLC

\* ------------------------------------------------------------------ bounds
BlockSize == 2        \* block_size, scaled down (deque.h:16-17 gives >= 16)
MaxFrontSegs == 8     \* push_front calls are capped at BlockSize * MaxFrontSegs
MaxBack == 3          \* cap on completed push_back calls
MaxFails == 1         \* cap on injected allocation failures
MaxElemSize == 300    \* the element sizes sizeof(T) explored for block_size
MaxPush == 34         \* cap on completed stack push / emplace calls
MaxPop == 2           \* cap on completed stack pop calls
MaxKey == 2           \* unordered_set keys are 0..MaxKey
MaxCount == 2         \* largest argument of the set constructor, rehash, reserve
MaxNodeAllocs == 4    \* cap on hash nodes ever allocated
MaxArrayAllocs == 3   \* cap on bucket arrays ever allocated
MaxData == 1          \* list elements are 0..MaxData
MaxListNodes == 3     \* cap on list nodes ever allocated

\* ------------------------------------------------------- program constants
InitMapSize == 8      \* reserve_map(8) in the constructor
INITIAL_CAPACITY == 16   \* stack::INITIAL_CAPACITY
default_bucket_count == 16     \* unordered_set::default_bucket_count
default_max_load_factor == 1   \* unordered_set::default_max_load_factor (1.0f)
SortCounters == 64             \* list::sort : list counter[64]

MaxFront == BlockSize * MaxFrontSegs

\* -------------------------------------------------------- value encodings
Wild == 0             \* a pointer value that addresses no segment
Uninit == -1          \* content of a slot / cell that was never written
Stale == -2           \* "whatever the released storage still holds"
NullMap == 0          \* nullptr for pointer*
Junk == 0             \* an indeterminate T
NoVal == -1           \* a cell holding no constructed element

FrontVal(k) == k          \* value passed to the k-th push_front
BackVal(k) == 100 + k     \* value passed to the k-th push_back

Ptr(s, o) == [seg |-> s, off |-> o]
NullPtr == Ptr(Wild, 0)
Node(m, i) == [map |-> m, idx |-> i]
NullNode == Node(NullMap, 0)

PtrAdd(p, n) == [p EXCEPT !.off = p.off + n]
NodeAdd(n, k) == [n EXCEPT !.idx = n.idx + k]

\* deque_iterator's data members, all nullptr
NullIter == [curr |-> NullPtr, first |-> NullPtr, last |-> NullPtr, node |-> NullNode]

\* ---------------------------------------------------------------- memory
\* s is the machine state an operation runs on:
\*   s.maps, s.segs  the allocations made so far (index arrays, segments)
\*   s.d             the data members of the deque the operation is called on
\*   s.ub            the kinds of undefined behaviour that have occurred
\*   s.exc           an exception (allocation failure) is propagating
\*   s.ret           the value returned by the last allocation
\*   s.ev            the steps of the current public call, in order

SegLive(s, k) == k \in 1..Len(s.segs) /\ s.segs[k].live
MapLive(s, m) == m \in 1..Len(s.maps) /\ s.maps[m].live

\* traits::allocate(seg_alloc_, block_size)
allocate_segment(s, fail) ==
    IF fail THEN [s EXCEPT !.exc = TRUE, !.ev = Append(@, "seg_alloc_failed")]
    ELSE [s EXCEPT !.segs = Append(@, [live |-> TRUE, frees |-> 0,
                                       cell |-> [o \in 0..(BlockSize - 1) |-> NoVal]]),
                   !.ret = Len(s.segs) + 1,
                   !.ev = Append(@, "seg_alloc")]

\* traits::allocate(map_alloc_, n)
allocate_map(s, n, fail) ==
    IF fail THEN [s EXCEPT !.exc = TRUE, !.ev = Append(@, "map_alloc_failed")]
    ELSE [s EXCEPT !.maps = Append(@, [live |-> TRUE, frees |-> 0, size |-> n,
                                       slot |-> [i \in 0..(n - 1) |-> Uninit]]),
                   !.ret = Len(s.maps) + 1,
                   !.ev = Append(@, "map_alloc")]

\* traits::deallocate(seg_alloc_, p, block_size)
deallocate_segment(s, p) ==
    IF p \in 1..Len(s.segs)
    THEN [s EXCEPT !.segs[p].live = FALSE, !.segs[p].frees = @ + 1,
                   !.ub = IF s.segs[p].live THEN @ ELSE @ \cup {"double_free"},
                   !.ev = Append(@, "seg_free")]
    ELSE [s EXCEPT !.ub = @ \cup {"bad_free"}, !.ev = Append(@, "seg_free")]

\* map_alloc_.deallocate(m, n)
deallocate_map(s, m) ==
    IF m \in 1..Len(s.maps)
    THEN [s EXCEPT !.maps[m].live = FALSE, !.maps[m].frees = @ + 1,
                   !.ub = IF s.maps[m].live THEN @ ELSE @ \cup {"double_free"},
                   !.ev = Append(@, "map_free")]
    ELSE [s EXCEPT !.ub = @ \cup {"bad_free"}, !.ev = Append(@, "map_free")]

\* Is reading *n defined?  (n addresses a written slot of a live index array)
SlotDefined(s, n) ==
    /\ MapLive(s, n.map)
    /\ n.idx \in 0..(s.maps[n.map].size - 1)
    /\ s.maps[n.map].slot[n.idx] # Uninit

\* The kind of undefined behaviour a read of *n is, if it is one
SlotUB(s, n) ==
    IF SlotDefined(s, n) THEN {}
    ELSE IF n.map \in 1..Len(s.maps) /\ ~s.maps[n.map].live THEN {"dangling_read"}
    ELSE IF MapLive(s, n.map) /\ n.idx \in 0..(s.maps[n.map].size - 1) THEN {"uninit_read"}
    ELSE {"oob_read"}

\* *n : the slot's content, or, when the read is undefined, the value g the
\* environment supplies (Stale: what the released array held, if anything)
MapLoad(s, n, g) ==
    IF SlotDefined(s, n) THEN s.maps[n.map].slot[n.idx]
    ELSE IF g # Stale THEN g
    ELSE IF /\ n.map \in 1..Len(s.maps)
            /\ n.idx \in 0..(s.maps[n.map].size - 1)
            /\ s.maps[n.map].slot[n.idx] # Uninit
         THEN s.maps[n.map].slot[n.idx]
         ELSE Wild

\* *n = v
MapStore(s, n, v) ==
    IF MapLive(s, n.map) /\ n.idx \in 0..(s.maps[n.map].size - 1)
    THEN [s EXCEPT !.maps[n.map].slot[n.idx] = v]
    ELSE [s EXCEPT !.ub = @ \cup {"wild_index_write"}]

\* Does p address a cell of a live segment?
CellValid(s, p) == SegLive(s, p.seg) /\ p.off \in 0..(BlockSize - 1)

\* *p for an element pointer (operator* of the iterator)
Deref(s, p) ==
    IF CellValid(s, p) /\ s.segs[p.seg].cell[p.off] # NoVal
    THEN s.segs[p.seg].cell[p.off]
    ELSE Junk

\* traits::construct(seg_alloc_, p, value)
construct(s, p, value) ==
    IF CellValid(s, p)
    THEN [s EXCEPT !.segs[p.seg].cell[p.off] = value,
                   !.ub = IF s.segs[p.seg].cell[p.off] = NoVal THEN @
                          ELSE @ \cup {"overwrite"},
                   !.ev = Append(@, "construct")]
    ELSE [s EXCEPT !.ub = @ \cup {"wild_write"}, !.ev = Append(@, "construct")]

\* ---------------------------------------------------------------- cursor
\* deque_iterator::iterator_category
IteratorCategory == "random_access"

\* the operators deque_iterator defines
IteratorOps == {"*", "->", "++", "--", "==", "!="}

\* deque_iterator::set_node
set_node(s, c, new_node, g) ==
    LET f == Ptr(MapLoad(s, new_node, g), 0)
    IN [c EXCEPT !.node = new_node, !.first = f, !.last = PtrAdd(f, BlockSize)]

\* operator++ without the boundary crossing: ++curr alone
operator_inc_no_wrap(s, c, g) ==
    [c EXCEPT !.curr = PtrAdd(c.curr, 1)]

\* operator++ testing for segment-end before it advances
operator_inc_test_first(s, c, g) ==
    IF c.curr = c.last
    THEN LET c2 == set_node(s, c, NodeAdd(c.node, 1), g)
         IN [c2 EXCEPT !.curr = c2.first]
    ELSE [c EXCEPT !.curr = PtrAdd(c.curr, 1)]

\* deque_iterator::operator++
operator_inc(s, c, g) ==
    LET c1 == [c EXCEPT !.curr = PtrAdd(c.curr, 1)]
    IN IF c1.curr = c1.last
       THEN LET c2 == set_node(s, c1, NodeAdd(c1.node, 1), g)
            IN [c2 EXCEPT !.curr = c2.first]
       ELSE c1

\* the undefined reads operator++ performs on c
IncUB(s, c) ==
    IF PtrAdd(c.curr, 1) = c.last THEN SlotUB(s, NodeAdd(c.node, 1)) ELSE {}

\* operator-- landing on segment-start of the previous segment
operator_dec_to_first(s, c, g) ==
    IF c.curr = c.first
    THEN LET c2 == set_node(s, c, NodeAdd(c.node, -1), g)
         IN [c2 EXCEPT !.curr = c2.first]
    ELSE [c EXCEPT !.curr = PtrAdd(c.curr, -1)]

\* deque_iterator::operator--
operator_dec(s, c, g) ==
    LET c1 == IF c.curr = c.first
              THEN LET c2 == set_node(s, c, NodeAdd(c.node, -1), g)
                   IN [c2 EXCEPT !.curr = c2.last]
              ELSE c
    IN [c1 EXCEPT !.curr = PtrAdd(c1.curr, -1)]

\* the undefined reads operator-- performs on c
DecUB(s, c) ==
    IF c.curr = c.first THEN SlotUB(s, NodeAdd(c.node, -1)) ELSE {}

\* deque_iterator::operator==
IterEq(a, b) == a.curr = b.curr


\* the undefined reads of one call are added to s.ub and counted in s.ubn
NoteUB(s, kinds) ==
    IF kinds = {} THEN s
    ELSE [s EXCEPT !.ub = @ \cup kinds, !.ubn = @ + 1]

\* ----------------------------------------------------------------- deque
\* the data members before the constructor body runs
NullDeque == [map_ |-> NullMap, map_size_ |-> 0, num_segments_ |-> 0,
              start_ |-> NullIter, finish_ |-> NullIter]

\* deque::reserve_map
reserve_map(s, n, fail) ==
    LET set(a) == IF a.exc THEN a
                  ELSE [a EXCEPT !.d.map_ = a.ret, !.d.map_size_ = n]
    IN set(allocate_map(s, n, fail))

\* deque::deque() : num_segments_ stays 0 although map_[0] holds a segment
deque_ctor(s) ==
    LET anchor(c) ==
            LET st == set_node(c, c.d.start_, Node(c.d.map_, 0), Wild)
            IN [c EXCEPT !.d.start_ = [st EXCEPT !.curr = st.first],
                         !.d.finish_ = [st EXCEPT !.curr = st.first]]
        store(b) == anchor(MapStore(b, Node(b.d.map_, 0), b.ret))
    IN store(allocate_segment(reserve_map([s EXCEPT !.d = NullDeque], InitMapSize, FALSE),
                              FALSE))

\* the loop of resize_map: new_map[i] = map_[i] for i in from..num_segments_-1
RECURSIVE copy_refs(_, _, _, _)
copy_refs(s, new_map, i, g) ==
    IF i >= s.d.num_segments_ THEN s
    ELSE copy_refs(MapStore(NoteUB(s, SlotUB(s, Node(s.d.map_, i))),
                            Node(new_map, i), MapLoad(s, Node(s.d.map_, i), g)),
                   new_map, i + 1, g)

\* resize_map releasing the old index before it has the new one
resize_map_release_first(s, new_size, g, fail) ==
    LET swap(c, new_map) == [c EXCEPT !.d.map_ = new_map, !.d.map_size_ = new_size]
        copy(a) == IF a.exc THEN a
                   ELSE swap(copy_refs(a, a.ret, 0, g), a.ret)
    IN copy(allocate_map(deallocate_map(s, s.d.map_), new_size, fail))

\* deque::resize_map : start_.node and finish_.node are left pointing into
\* the released array
resize_map(s, new_size, g, fail) ==
    LET swap(c, new_map) == [c EXCEPT !.d.map_ = new_map, !.d.map_size_ = new_size]
        release(b, new_map) == swap(deallocate_map(b, b.d.map_), new_map)
        copy(a) == IF a.exc THEN a
                   ELSE release(copy_refs(a, a.ret, 0, g), a.ret)
    IN copy(allocate_map(s, new_size, fail))

\* the growth test of both pushes: num_segments_ + 1 >= map_size_
needs_resize_late(s) == s.d.num_segments_ + 1 > s.d.map_size_

needs_resize(s) == s.d.num_segments_ + 1 >= s.d.map_size_

\* the store of the new reference, releasing the segment the slot referred to
store_ref_release_old(s, i) ==
    LET old == s.maps[s.d.map_].slot[i]
        put(a) == [MapStore(a, Node(a.d.map_, i), s.ret) EXCEPT !.ev = Append(@, "store")]
    IN put(IF old \in 1..Len(s.segs) THEN deallocate_segment(s, old) ELSE s)

\* map_[i] = allocate_segment(): the store of the new segment's reference; the
\* step records whether a slack slot remained (num_segments_ + 1 < map_size_)
store_ref(s, i) ==
    [MapStore(s, Node(s.d.map_, i), s.ret)
        EXCEPT !.ev = Append(@, IF s.d.num_segments_ + 1 < s.d.map_size_
                                THEN "store" ELSE "store_no_slack")]

\* the segment-adding branch of push_back (finish_.curr == finish_.last)
push_back_grow(s, g, fail) ==
    LET anchor(c, n) ==
            LET f == set_node(c, c.d.finish_, n, g)
            IN [NoteUB(c, SlotUB(c, n))
                  EXCEPT !.d.finish_ = [f EXCEPT !.curr = f.first],
                         !.d.num_segments_ = @ + 1,
                         !.ev = Append(@, "reanchor")]
        store(b) == IF b.exc THEN b
                    ELSE anchor(store_ref(b, b.d.num_segments_),
                                Node(b.d.map_, b.d.num_segments_))
        alloc(a) == IF a.exc THEN a ELSE store(allocate_segment(a, fail = "seg"))
    IN alloc(IF needs_resize(s)
             THEN resize_map(s, s.d.map_size_ * 2, g, fail = "map")
             ELSE s)

\* push_back constructing the element without advancing finish_
push_back_no_advance(s, value, g, fail) ==
    construct(s, s.d.finish_.curr, value)

\* deque::push_back
push_back(s, value, g, fail) ==
    LET advance(b) == [NoteUB(b, IncUB(b, b.d.finish_))
                         EXCEPT !.d.finish_ = operator_inc(b, b.d.finish_, g)]
        write(a) == IF a.exc THEN a
                    ELSE advance(construct(a, a.d.finish_.curr, value))
    IN write(IF s.d.finish_.curr = s.d.finish_.last
             THEN push_back_grow(s, g, fail)
             ELSE s)

\* the loop of push_front: map_[i] = map_[i - 1] for i = num_segments_ .. 1
RECURSIVE shift_refs(_, _, _)
shift_refs(s, i, g) ==
    IF i <= 0 THEN s
    ELSE shift_refs(MapStore(NoteUB(s, SlotUB(s, Node(s.d.map_, i - 1))),
                             Node(s.d.map_, i), MapLoad(s, Node(s.d.map_, i - 1), g)),
                    i - 1, g)

\* the segment-adding branch of push_front (start_.curr == start_.first)
push_front_grow(s, g, fail) ==
    LET anchor(e, n) ==
            LET f == set_node(e, e.d.start_, n, g)
            IN [NoteUB(e, SlotUB(e, n))
                  EXCEPT !.d.num_segments_ = @ + 1,
                         !.d.start_ = [f EXCEPT !.curr = f.last],
                         !.ev = Append(@, "reanchor")]
        store(c) == IF c.exc THEN c
                    ELSE anchor(store_ref(c, 0), Node(c.d.map_, 0))
        shift(a) == IF a.exc THEN a
                    ELSE store(allocate_segment(shift_refs(a, a.d.num_segments_, g),
                                                fail = "seg"))
    IN shift(IF needs_resize(s)
             THEN resize_map(s, s.d.map_size_ * 2, g, fail = "map")
             ELSE s)

\* deque::push_front
push_front(s, value, g, fail) ==
    LET write(b) == construct(b, b.d.start_.curr, value)
        retreat(a) == IF a.exc THEN a
                      ELSE write([NoteUB(a, DecUB(a, a.d.start_))
                                    EXCEPT !.d.start_ = operator_dec(a, a.d.start_, g)])
    IN retreat(IF s.d.start_.curr = s.d.start_.first
               THEN push_front_grow(s, g, fail)
               ELSE s)

\* the loop of clear: deallocate map_[i] for i in from..num_segments_-1
RECURSIVE release_refs(_, _, _)
release_refs(s, i, g) ==
    IF i >= s.d.num_segments_ THEN s
    ELSE release_refs(deallocate_segment(NoteUB(s, SlotUB(s, Node(s.d.map_, i))),
                                         MapLoad(s, Node(s.d.map_, i), g)),
                      i + 1, g)

\* deque::clear : releases segments, destroys no element, keeps the cursors
clear(s, g) ==
    [release_refs(s, 0, g) EXCEPT !.d.num_segments_ = 0]

\* deque::~deque
deque_dtor(s, g) ==
    LET release(a) == IF a.d.map_ # NullMap THEN deallocate_map(a, a.d.map_) ELSE a
    IN release(clear(s, g))

\* print_debug's loop body for one element: what *it yields, and whether the
\* read is one of a constructed element
DerefUB(s, p) ==
    IF CellValid(s, p) /\ s.segs[p.seg].cell[p.off] # NoVal THEN {} ELSE {"junk_read"}

\* print_debug as a function of the machine state: the values yielded from c
\* until finish_, cut after k values and at the first undefined read (marked
\* by a trailing Uninit)
RECURSIVE print_debug(_, _, _)
print_debug(s, c, k) ==
    IF IterEq(c, s.d.finish_) \/ k = 0 THEN <<>>
    ELSE IF DerefUB(s, c.curr) # {} THEN <<Uninit>>
    ELSE IF IncUB(s, c) # {} THEN <<Deref(s, c.curr), Uninit>>
    ELSE <<Deref(s, c.curr)>> \o print_debug(s, operator_inc(s, c, Wild), k - 1)

\* ----------------------------------------------------------------- state
VARIABLES
    maps,      \* index arrays ever allocated
    segs,      \* segments ever allocated
    deq,       \* the deque under test (its data members)
    deq2,      \* a second deque object, made by copying deq
    pc,        \* "live" | "fwd" | "bwd" | "dead" : what the program does with deq
    pc2,       \* "none" | "live" | "dead" : lifetime of deq2
    it,        \* the iterator of the walk in progress
    out,       \* the values the walk has yielded
    wub,       \* undefined behaviour met by the walk
    ub,        \* undefined behaviour met by constructor, pushes, destructors
    nfront,    \* completed push_front calls
    nback,     \* completed push_back calls
    fails,     \* allocation failures injected so far
    op         \* the last public call: its name, whether it threw, its steps

\* the state of the other programs of the repository, each checked under a
\* specification of its own
VARIABLES
    esize,     \* deque<T>::block_size : sizeof(T) of the instantiation
    bsz,       \* deque<T>::block_size : the value computed, 0 before it is
    sbufs,     \* stack : the buffers ever allocated
    stk,       \* stack : the data members of the stack under test
    smodel,    \* stack : the values pushed and not yet popped, oldest first
    npush,     \* stack : completed push / emplace calls
    npop,      \* stack : completed pop calls
    sfails,    \* stack : allocation failures injected so far
    sop,       \* stack : the last public call, whether it threw, what it returned
    unodes,    \* unordered_set : the hash nodes ever allocated
    uarrs,     \* unordered_set : the bucket arrays ever allocated
    uset,      \* unordered_set : the data members of the set under test
    uset2,     \* unordered_set : the data members of the set move-constructed from it
    upc,       \* unordered_set : "none", "live", or "trapped" once a call has trapped
    uop,       \* unordered_set : the last public call, its argument, result and UB
    lnodes,    \* list : the nodes ever allocated; 1 and 2 are the sentinels of lists a and b
    lsz,       \* list : sz of list a and of list b
    lop        \* list : the last public call and the list it was made on

dequeVars == <<maps, segs, deq, deq2, pc, pc2, it, out, wub, ub, nfront, nback, fails, op>>
blockVars == <<esize, bsz>>
stackVars == <<sbufs, stk, smodel, npush, npop, sfails, sop>>
setVars == <<unodes, uarrs, uset, uset2, upc, uop>>
listVars == <<lnodes, lsz, lop>>

vars == <<dequeVars, blockVars, stackVars, setVars, listVars>>

\* what a specification leaves alone
nonDeque == <<blockVars, stackVars, setVars, listVars>>
nonBlock == <<dequeVars, stackVars, setVars, listVars>>
nonStack == <<dequeVars, blockVars, setVars, listVars>>
nonSet == <<dequeVars, blockVars, stackVars, listVars>>
nonList == <<dequeVars, blockVars, stackVars, setVars>>

\* the data members of a stack before any constructor body runs
NullStack == [data_ |-> 0, size_ |-> 0, capacity_ |-> 0]

\* the programs a specification is not about do not run
BlockIdle == esize = 0 /\ bsz = 0

StackIdle ==
    /\ sbufs = <<>> /\ stk = NullStack /\ smodel = <<>>
    /\ npush = 0 /\ npop = 0 /\ sfails = 0
    /\ sop = [name |-> "none", thrown |-> "", ret |-> 0, ub |-> {}]

\* the data members of an unordered_set that owns nothing
NullSet == [buckets_ |-> 0, bucket_count_ |-> 0, size_ |-> 0]

SetIdle ==
    /\ unodes = <<>> /\ uarrs = <<>> /\ uset = NullSet /\ uset2 = NullSet
    /\ upc = "none"
    /\ uop = [name |-> "none", key |-> 0, ret |-> 0, ub |-> {}]

ListIdle == lnodes = <<>> /\ lsz = <<>> /\ lop = [name |-> "none", list |-> 0]


\* the machine state seen by a call on the deque with data members d
S(d) == [maps |-> maps, segs |-> segs, d |-> d, ub |-> ub, ubn |-> 0,
         exc |-> FALSE, ret |-> 0, ev |-> <<>>]

\* the values an undefined pointer read may produce: a pointer to no segment,
\* a pointer to any segment ever allocated, or what released storage held.
\* One call draws one g; every undefined read of that call yields it.
Garbage == {Stale, Wild} \cup (1..Len(segs))

\* a call that met no undefined read does not depend on g: take it once
Relevant(g, r) == g = Wild \/ r.ubn > 0

FailModes == IF fails < MaxFails THEN {"none", "map", "seg"} ELSE {"none"}

Size == nfront + nback

Init ==
    LET made(r) ==
       /\ maps = r.maps
       /\ segs = r.segs
       /\ deq = r.d
       /\ ub = r.ub
       /\ op = [name |-> "deque", exc |-> FALSE, ev |-> r.ev]
    IN /\ made(deque_ctor([maps |-> <<>>, segs |-> <<>>, d |-> NullDeque, ub |-> {},
                           ubn |-> 0, exc |-> FALSE, ret |-> 0, ev |-> <<>>]))
       /\ deq2 = NullDeque
       /\ pc = "live"
       /\ pc2 = "none"
       /\ it = NullIter
       /\ out = <<>>
       /\ wub = {}
       /\ nfront = 0
       /\ nback = 0
       /\ fails = 0
       /\ BlockIdle /\ StackIdle /\ SetIdle /\ ListIdle

\* the effect of a call on deq that ended in machine state r
Commit(name, r) ==
    /\ maps' = r.maps
    /\ segs' = r.segs
    /\ deq' = r.d
    /\ ub' = r.ub
    /\ fails' = IF r.exc THEN fails + 1 ELSE fails
    /\ op' = [name |-> name, exc |-> r.exc, ev |-> r.ev]

PushBack ==
    /\ pc = "live" /\ pc2 = "none"
    /\ nback < MaxBack
    /\ \E fail \in FailModes, g \in Garbage :
         LET done(r) == /\ Relevant(g, r)
                        /\ Commit("push_back", r)
                        /\ nback' = IF r.exc THEN nback ELSE nback + 1
         IN done(push_back(S(deq), BackVal(nback + 1), g, fail))
    /\ UNCHANGED <<deq2, pc, pc2, it, out, wub, nfront>>
    /\ UNCHANGED nonDeque

PushFront ==
    /\ pc = "live" /\ pc2 = "none"
    /\ nfront < MaxFront
    /\ \E fail \in FailModes, g \in Garbage :
         LET done(r) == /\ Relevant(g, r)
                        /\ Commit("push_front", r)
                        /\ nfront' = IF r.exc THEN nfront ELSE nfront + 1
         IN done(push_front(S(deq), FrontVal(nfront + 1), g, fail))
    /\ UNCHANGED <<deq2, pc, pc2, it, out, wub, nback>>
    /\ UNCHANGED nonDeque

\* print_debug: auto it = start_
FwdBegin ==
    /\ pc = "live" /\ pc2 = "none"
    /\ pc' = "fwd"
    /\ it' = deq.start_
    /\ out' = <<>>
    /\ UNCHANGED <<maps, segs, deq, deq2, pc2, wub, ub, nfront, nback, fails, op>>
    /\ UNCHANGED nonDeque

\* print_debug: one turn of while (it != finish_) { yield *it; ++it; }
\* The walk is followed up to its first undefined read (recorded in wub, with
\* the cursor that read produced) and for at most Size + 1 elements.
FwdStep ==
    /\ pc = "fwd"
    /\ ~IterEq(it, deq.finish_)
    /\ wub = {}
    /\ Len(out) <= Size
    /\ out' = Append(out, Deref(S(deq), it.curr))
    /\ \E g \in (IF IncUB(S(deq), it) # {} THEN Garbage ELSE {Wild}) :
          it' = operator_inc(S(deq), it, g)
    /\ wub' = DerefUB(S(deq), it.curr) \cup IncUB(S(deq), it)
    /\ UNCHANGED <<maps, segs, deq, deq2, pc, pc2, ub, nfront, nback, fails, op>>
    /\ UNCHANGED nonDeque

\* the reverse walk: auto it = finish_
BwdBegin ==
    /\ pc = "live" /\ pc2 = "none"
    /\ pc' = "bwd"
    /\ it' = deq.finish_
    /\ out' = <<>>
    /\ UNCHANGED <<maps, segs, deq, deq2, pc2, wub, ub, nfront, nback, fails, op>>
    /\ UNCHANGED nonDeque

\* the reverse walk: one turn of while (it != start_) { --it; yield *it; }
\* (followed as far as the forward walk is)
BwdStep ==
    /\ pc = "bwd"
    /\ ~IterEq(it, deq.start_)
    /\ wub = {}
    /\ Len(out) <= Size
    /\ \E g \in (IF DecUB(S(deq), it) # {} THEN Garbage ELSE {Wild}) :
          LET n == operator_dec(S(deq), it, g)
          IN /\ it' = n
             /\ out' = Append(out, Deref(S(deq), n.curr))
             /\ wub' = DecUB(S(deq), it) \cup DerefUB(S(deq), n.curr)
    /\ UNCHANGED <<maps, segs, deq, deq2, pc, pc2, ub, nfront, nback, fails, op>>
    /\ UNCHANGED nonDeque

\* deq goes out of scope
Destroy ==
    /\ pc = "live"
    /\ \E g \in Garbage :
          LET done(r) == Relevant(g, r) /\ Commit("~deque", r)
          IN done(deque_dtor(S(deq), g))
    /\ pc' = "dead"
    /\ UNCHANGED <<deq2, pc2, it, out, wub, nfront, nback>>
    /\ UNCHANGED nonDeque

\* deq2 goes out of scope
Destroy2 ==
    /\ pc2 = "live"
    /\ \E g \in Garbage :
          LET done(r) == /\ Relevant(g, r)
                         /\ maps' = r.maps
                         /\ segs' = r.segs
                         /\ deq2' = r.d
                         /\ ub' = r.ub
                         /\ op' = [name |-> "~deque2", exc |-> r.exc, ev |-> r.ev]
          IN done(deque_dtor(S(deq2), g))
    /\ pc2' = "dead"
    /\ UNCHANGED <<deq, pc, it, out, wub, nfront, nback, fails>>
    /\ UNCHANGED nonDeque

\* deque deq2(deq): the implicitly defined copy constructor copies each member
CopyConstruct ==
    /\ pc = "live" /\ pc2 = "none"
    /\ deq2' = deq
    /\ pc2' = "live"
    /\ op' = [name |-> "copy_ctor", exc |-> FALSE, ev |-> <<>>]
    /\ UNCHANGED <<maps, segs, deq, pc, it, out, wub, ub, nfront, nback, fails>>
    /\ UNCHANGED nonDeque

\* deque deq2; deq2 = deq: the implicitly defined copy assignment copies each
\* member over those the constructor of deq2 had set
CopyAssign ==
    /\ pc = "live" /\ pc2 = "none"
    /\ LET done(r) == /\ maps' = r.maps
                      /\ segs' = r.segs
                      /\ ub' = r.ub
       IN done(deque_ctor(S(NullDeque)))
    /\ deq2' = deq
    /\ pc2' = "live"
    /\ op' = [name |-> "copy_assign", exc |-> FALSE, ev |-> <<>>]
    /\ UNCHANGED <<deq, pc, it, out, wub, nfront, nback, fails>>
    /\ UNCHANGED nonDeque

Next ==
    \/ PushBack
    \/ PushFront
    \/ FwdBegin
    \/ FwdStep
    \/ BwdBegin
    \/ BwdStep
    \/ Destroy
    \/ Destroy2
    \/ CopyConstruct
    \/ CopyAssign

Spec == Init /\ [][Next]_vars


\* ------------------------------------------------------ claim vocabulary
\* the sequence the calls made so far imply: prepended values in reverse call
\* order, then appended values in call order
Expected ==
    [i \in 1..nfront |-> FrontVal(nfront + 1 - i)] \o [i \in 1..nback |-> BackVal(i)]

IsPrefix(a, b) ==
    /\ Len(a) <= Len(b)
    /\ \A i \in 1..Len(a) : a[i] = b[i]

\* the forward walk in progress behaves as iteration over Expected: it has met
\* no undefined read, has yielded a prefix of Expected, and is at finish_
\* exactly when it has yielded all of it
WalkYieldsExpected ==
    /\ wub = {}
    /\ IsPrefix(out, Expected)
    /\ IterEq(it, deq.finish_) <=> out = Expected

\* no allocation has failed so far
NoFailure == fails = 0

\* the references held by the occupied index slots 0..num_segments_-1 of d
OccupiedRefs(ms, d) ==
    [i \in 1..d.num_segments_ |-> ms[d.map_].slot[i - 1]]

MaxWalk == MaxFront + MaxBack + 1

\* ---------------------------------------------------------------- claims

\* C1: after any interleaving of push_front and push_back calls on a fresh
\* deque, forward iteration from start_ to finish_ yields exactly the pushed
\* elements: the prepended ones in reverse call order, then the appended ones
\* in call order.
C1_IterationYieldsPushes ==
    (pc = "fwd" /\ NoFailure) => WalkYieldsExpected

\* C2: push_front(x) after one to block_size-1 push_back calls (and nothing
\* else) makes forward iteration yield x, then the appended elements in call
\* order.
C2_PushFrontAfterPushBacks ==
    (/\ pc = "fwd" /\ NoFailure
     /\ op.name = "push_front"
     /\ nfront = 1
     /\ nback \in 1..(BlockSize - 1)) => WalkYieldsExpected

\* C3: 2*block_size push_front calls with values 0..2*block_size-1 make forward
\* iteration from start_ to finish_ yield exactly those values in strictly
\* descending order.
C3_FrontOnlyDescending ==
    (/\ pc = "fwd" /\ NoFailure
     /\ nfront = 2 * BlockSize
     /\ nback = 0) =>
        /\ WalkYieldsExpected
        /\ \A i \in 1..(Len(out) - 1) : out[i] > out[i + 1]

\* C4: block_size+1 push_back calls on a fresh deque allocate exactly one
\* segment beyond the constructor's, and forward iteration then yields the
\* block_size+1 values in call order.
C4_BackGrowthOneSegment ==
    (NoFailure /\ nfront = 0 /\ nback = BlockSize + 1) =>
        /\ Len(segs) = 2
        /\ pc = "fwd" => WalkYieldsExpected

\* C5: block_size+1 push_front calls on a fresh deque allocate exactly one
\* segment beyond the constructor's, and forward iteration then yields the
\* block_size+1 values in reverse call order.
C5_FrontGrowthOneSegment ==
    (NoFailure /\ nback = 0 /\ nfront = BlockSize + 1) =>
        /\ Len(segs) = 2
        /\ pc = "fwd" => WalkYieldsExpected

\* C6: in every state reached by n pushes, n applications of operator++ to a
\* copy of start_ give a cursor equal to finish_, and not fewer; n applications
\* of operator-- to a copy of finish_ give a cursor equal to start_.
C6_WalkLengthIsSize ==
    NoFailure =>
        /\ pc = "fwd" => (IterEq(it, deq.finish_) <=> Len(out) = Size)
        /\ pc = "bwd" => (IterEq(it, deq.start_) <=> Len(out) = Size)

\* C7: after the destructor, every segment and every index array ever
\* allocated has been deallocated exactly once; nothing is outstanding.
C7_DestructorReleasesAll ==
    (pc = "dead" /\ pc2 = "none" /\ NoFailure) =>
        /\ \A k \in 1..Len(segs) : ~segs[k].live /\ segs[k].frees = 1
        /\ \A m \in 1..Len(maps) : ~maps[m].live /\ maps[m].frees = 1

\* C8: a copy of a deque shares neither the index array nor any segment with
\* its source, so destroying both releases each allocation exactly once.
C8_CopySharesNothing ==
    /\ (pc = "live" /\ pc2 = "live") =>
          /\ deq2.map_ # deq.map_
          /\ deq2.start_.first.seg # deq.start_.first.seg
          /\ deq2.finish_.first.seg # deq.finish_.first.seg
    /\ (pc = "dead" /\ pc2 = "dead") =>
          /\ \A k \in 1..Len(segs) : segs[k].frees <= 1
          /\ \A m \in 1..Len(maps) : maps[m].frees <= 1

\* the last call was a push that threw because a segment allocation failed
SegAllocFailed(o) ==
    /\ o.name \in {"push_back", "push_front"}
    /\ o.exc
    /\ o.ev[Len(o.ev)] = "seg_alloc_failed"

\* the last call was a push that threw because the allocation of the enlarged
\* index failed
MapAllocFailed(o) ==
    /\ o.name \in {"push_back", "push_front"}
    /\ o.exc
    /\ o.ev[Len(o.ev)] = "map_alloc_failed"

\* C9: a push in which a segment allocation fails leaves the container as it
\* was: the occupied index slots hold the same references in the same order,
\* num_segments_ is unchanged, and iteration (where it was defined) yields the
\* same elements.
C9_SegAllocFailureKeepsState ==
    [][SegAllocFailed(op') =>
          /\ deq'.num_segments_ = deq.num_segments_
          /\ OccupiedRefs(maps', deq') = OccupiedRefs(maps, deq)
          /\ (Uninit \notin { print_debug(S(deq), deq.start_, MaxWalk)[i] :
                                i \in 1..Len(print_debug(S(deq), deq.start_, MaxWalk)) }
                => print_debug(S(deq), deq.start_, MaxWalk)'
                     = print_debug(S(deq), deq.start_, MaxWalk))]_vars

\* C10: when the allocation of the enlarged index fails in resize_map, the
\* index array, map_size_, num_segments_, the cursors and all segments are as
\* before the call, and nothing has been released.
C10_MapAllocFailureKeepsState ==
    [][MapAllocFailed(op') => (maps' = maps /\ segs' = segs /\ deq' = deq)]_vars

\* C10 witness: a push has thrown out of resize_map's allocation
C10_Witness == MapAllocFailed(op)


\* the index array of deq
Index == maps[deq.map_]

\* the deque under test exists and has not been copied
Alive == pc # "dead" /\ pc2 = "none"

\* C11: the block index is the sole owner of segments: every segment that is
\* allocated and not released is referenced by exactly one index slot below
\* num_segments_, and no such slot references a released segment.
C11_IndexOwnsSegments ==
    Alive =>
        /\ \A k \in 1..Len(segs) :
              segs[k].live =>
                 Cardinality({i \in 0..(deq.num_segments_ - 1) : Index.slot[i] = k}) = 1
        /\ \A i \in 0..(deq.num_segments_ - 1) :
              Index.slot[i] \in 1..Len(segs) /\ segs[Index.slot[i]].live

\* C12: num_segments_ is the number of index slots that hold a segment
\* reference, and those slots are exactly 0 .. num_segments_-1.
C12_NumSegmentsCountsSlots ==
    Alive =>
        {i \in 0..(Index.size - 1) : Index.slot[i] # Uninit} = 0..(deq.num_segments_ - 1)


\* the steps of the last call include step e
Did(e) == \E i \in 1..Len(op.ev) : op.ev[i] = e

\* C13: whenever push_back or push_front stores a new segment reference into
\* the block index, num_segments_ + 1 < map_size_ holds at that moment.
C13_SlackBeforeStore ==
    op.name \in {"push_back", "push_front"} => ~Did("store_no_slack")

\* C13 witness: a push has stored a new reference right after growing the index
C13_Witness ==
    op.name = "push_front" /\ Did("map_alloc") /\ Did("store")


\* C14: start_ == finish_ if and only if the container holds no elements.
C14_EqualIffEmpty ==
    Alive => (IterEq(deq.start_, deq.finish_) <=> Size = 0)


\* first <= curr < last, all three in one segment
InsideBounds(c) ==
    /\ c.first.seg = c.curr.seg
    /\ c.last.seg = c.curr.seg
    /\ c.first.off <= c.curr.off
    /\ c.curr.off < c.last.off

\* C15: between public operations start_ and finish_ satisfy
\* first <= curr <= last with respect to their own bounds, and neither rests
\* with curr == last.
C15_CursorsInsideBounds ==
    pc # "dead" => InsideBounds(deq.start_) /\ InsideBounds(deq.finish_)

\* C15 witness: finish_ has crossed forward onto a first slot and start_ has
\* crossed backward onto a last slot
C15_Witness ==
    /\ pc = "live"
    /\ ub = {}
    /\ deq.finish_.node.idx > 0 /\ deq.finish_.curr = deq.finish_.first
    /\ nfront > 0 /\ deq.start_.curr = PtrAdd(deq.start_.last, -1)


\* C16: the cursor supports random-access arithmetic: adding (subtracting) an
\* offset n in one step gives the same cursor as n increments (decrements).
C16_RandomAccessArithmetic ==
    pc \in {"fwd", "bwd"} =>
        (IteratorCategory = "random_access" => {"+=", "-=", "+", "-"} \subseteq IteratorOps)

\* a turn of the forward walk, which increments it
IncrementsIt == pc = "fwd" /\ pc' = "fwd" /\ Len(out') = Len(out) + 1

\* a push_back that returned, which increments finish_
IncrementsFinish == nback' = nback + 1

\* c2 is c moved one slot within its segment
SameSegmentStep(c, c2, k) == c2 = [c EXCEPT !.curr = PtrAdd(c.curr, k)]

\* c2 is anchored on the index slot k away from c's, with the bounds of the
\* segment that slot refers to when it holds a reference
Crossed(c, c2, k) ==
    /\ c2.node = NodeAdd(c.node, k)
    /\ c2.last = PtrAdd(c2.first, BlockSize)
    /\ SlotDefined(S(deq), c2.node) => c2.first = Ptr(maps[c2.node.map].slot[c2.node.idx], 0)

Incremented(c, c2) ==
    IF PtrAdd(c.curr, 1) # c.last
    THEN SameSegmentStep(c, c2, 1)
    ELSE Crossed(c, c2, 1) /\ c2.curr = c2.first

DecrementsIt == pc = "bwd" /\ pc' = "bwd" /\ Len(out') = Len(out) + 1

\* a push_front that returned without allocating, which decrements start_
DecrementsStart == nfront' = nfront + 1 /\ deq.start_.curr # deq.start_.first

\* what operator-- does to c, giving c2
Decremented(c, c2) ==
    IF c.curr = c.first
    THEN Crossed(c, c2, -1) /\ c2.curr = PtrAdd(c2.last, -1)
    ELSE SameSegmentStep(c, c2, -1)

\* C18: decrementing a cursor whose curr is at first moves it to the previous
\* index slot with that segment's bounds and leaves curr on last - 1;
\* decrementing any other cursor moves curr back one slot in the same segment.
C18_DecrementCrossesFromFirst ==
    [][/\ DecrementsIt => Decremented(it, it')
       /\ DecrementsStart => Decremented(deq.start_, deq'.start_)]_vars

\* C18 witness: a reverse walk without undefined reads has crossed into the
\* previous segment
C18_Witness ==
    /\ pc = "bwd" /\ wub = {} /\ ub = {}
    /\ Len(out) > 0
    /\ it.node.idx + 1 = deq.finish_.node.idx
    /\ it.curr = PtrAdd(it.last, -1)


\* the index slot k away from c's holds a reference to a live segment
ReadsReference(c, k) ==
    /\ SlotDefined(S(deq), NodeAdd(c.node, k))
    /\ SegLive(S(deq), maps[c.node.map].slot[c.node.idx + k])

\* C19: during push_back, push_front and forward iteration the set_node of
\* operator++ and operator-- reads only index slots that hold a reference to an
\* allocated, unreleased segment: never an unwritten slot, a slot outside the
\* index array or a slot of a released index array.
C19_CrossingsReadReferences ==
    [][/\ IncrementsFinish /\ PtrAdd(deq.finish_.curr, 1) = deq.finish_.last
             => ReadsReference(deq.finish_, 1)
       /\ IncrementsIt /\ PtrAdd(it.curr, 1) = it.last
             => ReadsReference(it, 1)
       /\ DecrementsStart /\ deq.start_.curr = deq.start_.first
             => ReadsReference(deq.start_, -1)]_vars

\* C20: every push constructs its value in a slot of an allocated, unreleased
\* segment that holds no live element.
C20_PushConstructsInFreeSlot ==
    ub \cap {"wild_write", "overwrite"} = {}


\* the last call was a push that returned
PushReturned == op.name \in {"push_back", "push_front"} /\ ~op.exc

\* c is coherent with the index: node is a slot below num_segments_ of the
\* current index array and that slot holds the segment c is bounded by
Coherent(c) ==
    /\ c.node.map = deq.map_
    /\ c.node.idx \in 0..(deq.num_segments_ - 1)
    /\ SlotDefined(S(deq), c.node)
    /\ c.first = Ptr(Index.slot[c.node.idx], 0)

\* C21: after every completed push_back or push_front both boundary cursors
\* are coherent with the current index: node points into the current index
\* array at a slot below num_segments_ and *node == first.
C21_CursorsCoherentWithIndex ==
    (Alive /\ PushReturned) => Coherent(deq.start_) /\ Coherent(deq.finish_)

\* a push_front that allocated a segment and returned
FrontGrew == nfront' = nfront + 1 /\ Len(segs') = Len(segs) + 1

\* C22: when push_front needs a new segment and slot 0 is occupied, every
\* reference the index held before the call is held one slot to the right
\* after it, and slot 0 holds the newly allocated segment.
C22_ShiftKeepsEveryReference ==
    [][(FrontGrew /\ Index.slot[0] # Uninit) =>
          /\ maps'[deq'.map_].slot[0] = Len(segs')
          /\ \A i \in 0..(Index.size - 1) :
                Index.slot[i] # Uninit => maps'[deq'.map_].slot[i + 1] = Index.slot[i]]_vars

\* the call in progress needs a new segment: push_front finds start_ on the
\* first slot of its segment, push_back fills the last slot of finish_'s
FrontSaturated == deq.start_.curr = deq.start_.first
BackSaturated == PtrAdd(deq.finish_.curr, 1) = deq.finish_.last

\* the step is a call of name that threw; a push_front / push_back call
\* (returning or throwing)
Threw(name) == fails' = fails + 1 /\ op'.name = name
CallsPushFront == nfront' = nfront + 1 \/ Threw("push_front")
CallsPushBack == nback' = nback + 1 \/ Threw("push_back")

\* the step ran resize_map
Resized == deq'.map_ # deq.map_ \/ (fails' = fails + 1 /\ op'.ev = <<"map_alloc_failed">>)

\* C23: index growth is triggered exactly when a push needs a new segment and
\* num_segments_ + 1 >= map_size_; it doubles map_size_, the new index holds
\* the same references in slots 0..num_segments_-1, num_segments_ is unchanged
\* and the old index storage is released exactly once.
C23_GrowthExactlyWhenNeeded ==
    [][/\ (CallsPushFront \/ CallsPushBack) =>
             (Resized <=> /\ needs_resize(S(deq))
                          /\ \/ CallsPushFront /\ FrontSaturated
                             \/ CallsPushBack /\ BackSaturated)
       /\ (CallsPushFront /\ FrontSaturated /\ needs_resize(S(deq))) =>
             LET r == resize_map(S(deq), deq.map_size_ * 2, Wild, FALSE)
             IN /\ r.d.map_size_ = 2 * deq.map_size_
                /\ r.d.num_segments_ = deq.num_segments_
                /\ \A i \in 0..(deq.num_segments_ - 1) :
                      r.maps[r.d.map_].slot[i] = Index.slot[i]
                /\ ~r.maps[deq.map_].live /\ r.maps[deq.map_].frees = 1]_vars


\* C24: clearing destroys every live element exactly once, releases every
\* segment referenced by the block index and leaves num_segments_ at zero.
C24_ClearDestroysAndReleases ==
    (pc = "dead" /\ pc2 = "none") =>
        /\ deq.num_segments_ = 0
        /\ \A k \in 1..Len(segs) : \A j \in 0..(BlockSize - 1) : segs[k].cell[j] = NoVal
        /\ \A i \in 0..(Index.size - 1) :
              Index.slot[i] \in 1..Len(segs) => ~segs[Index.slot[i]].live

\* C25: no push_back or push_front releases a segment: along every sequence of
\* pushes the set of allocated segments only grows, and a segment is
\* deallocated only by clear / destruction.
C25_PushReleasesNoSegment ==
    [][/\ Len(segs') >= Len(segs)
       /\ \A k \in 1..Len(segs) :
             segs'[k].frees # segs[k].frees => op'.name \in {"~deque", "~deque2"}
       /\ (CallsPushFront \/ CallsPushBack) =>
             \A k \in 1..Len(segs) : segs'[k].live = segs[k].live]_vars

\* C25 witness: a push has added a segment to three live ones
C25_Witness ==
    /\ op.name = "push_front" /\ Did("seg_alloc")
    /\ Len(segs) = 4
    /\ \A k \in 1..Len(segs) : segs[k].live

\* the steps of a push that found its boundary saturated, in the order claimed
OrderedSteps(ev) ==
    \/ ev = <<"seg_alloc", "store", "reanchor", "construct">>
    \/ ev = <<"map_alloc", "map_free", "seg_alloc", "store", "reanchor", "construct">>

\* C26: in every push that finds its boundary saturated the steps occur in the
\* order: index growth (if needed), allocation of the new segment and store of
\* its reference, re-anchoring of the boundary cursor, construction.
C26_GrowStepsInOrder ==
    [][(\/ CallsPushFront /\ FrontSaturated
        \/ CallsPushBack /\ BackSaturated)
          => (op'.exc \/ OrderedSteps(op'.ev))]_vars

\* every element stored before the step is stored, unchanged, after it
ElementsKept ==
    \A k \in 1..Len(segs) : \A j \in 0..(BlockSize - 1) :
        segs[k].cell[j] # NoVal => segs'[k].cell[j] = segs[k].cell[j]

\* C27: a push at one end changes neither the opposite boundary cursor nor any
\* previously stored element.
C27_PushLeavesOtherEnd ==
    [][/\ CallsPushBack => deq'.start_ = deq.start_ /\ ElementsKept
       /\ CallsPushFront => deq'.finish_ = deq.finish_ /\ ElementsKept]_vars


block_size_late_threshold(sz) == IF sz < 512 THEN 4096 \div sz ELSE 16

\* deque<T>::block_size for sizeof(T) = sz
block_size(sz) == IF sz < 256 THEN 4096 \div sz ELSE 16

\* no deque object exists
DequeIdle ==
    /\ maps = <<>> /\ segs = <<>> /\ deq = NullDeque /\ deq2 = NullDeque
    /\ pc = "idle" /\ pc2 = "none" /\ it = NullIter /\ out = <<>>
    /\ wub = {} /\ ub = {} /\ nfront = 0 /\ nback = 0 /\ fails = 0
    /\ op = [name |-> "none", exc |-> FALSE, ev |-> <<>>]

\* an instantiation deque<T> is chosen; block_size is not yet evaluated
InitBlockSize ==
    /\ esize \in 1..MaxElemSize
    /\ bsz = 0
    /\ DequeIdle /\ StackIdle /\ SetIdle /\ ListIdle

\* the compiler evaluates the static constexpr member
Instantiate ==
    /\ bsz = 0
    /\ bsz' = block_size(esize)
    /\ UNCHANGED esize
    /\ UNCHANGED nonBlock

NextBlockSize == Instantiate

SpecBlockSize == InitBlockSize /\ [][NextBlockSize]_vars

\* the larger of two numbers
Max(a, b) == IF a >= b THEN a ELSE b

\* C28: for every element size s with 1 <= s <= 255 the computed block_size
\* (4096 div s) equals max(4096 div s, 16), for every s >= 256 it is 16; hence
\* block_size >= 16 for every element type.
C28_BlockSizeAtLeastSixteen ==
    bsz # 0 =>
        /\ esize <= 255 => bsz = 4096 \div esize /\ bsz = Max(4096 \div esize, 16)
        /\ esize >= 256 => bsz = 16
        /\ bsz >= 16

\* C28 witness: block_size has been computed for an element of 255 bytes, the
\* largest size that is divided
C28_Witness == esize = 255 /\ bsz = 16


\* ----------------------------------------------------------------- stack
\* A buffer is an allocation of cap element cells; data_ is the number of a
\* buffer (0 = nullptr).  A call works on a machine state s: the buffers, the
\* data members d, the exception thrown (if any), the value returned and the
\* undefined behaviour met.

BufLive(s, b) == b \in 1..Len(s.bufs) /\ s.bufs[b].live
CellInBuf(s, b, i) == BufLive(s, b) /\ i \in 0..(s.bufs[b].cap - 1)

\* alloc_traits::allocate(alloc_, n)
stack_allocate(s, n, fail) ==
    IF fail THEN [s EXCEPT !.thrown = "bad_alloc"]
    ELSE [s EXCEPT !.bufs = Append(@, [live |-> TRUE, frees |-> 0, cap |-> n,
                                       cell |-> [i \in 0..(n - 1) |-> NoVal]]),
                   !.ret = Len(s.bufs) + 1]

\* alloc_traits::deallocate(alloc_, b, n)
stack_deallocate(s, b) ==
    IF BufLive(s, b)
    THEN [s EXCEPT !.bufs[b].live = FALSE, !.bufs[b].frees = @ + 1]
    ELSE [s EXCEPT !.ub = @ \cup {"bad_free"}]

\* alloc_traits::construct(alloc_, b + i, value)
stack_construct(s, b, i, value) ==
    IF CellInBuf(s, b, i)
    THEN [s EXCEPT !.bufs[b].cell[i] = value,
                   !.ub = IF s.bufs[b].cell[i] = NoVal THEN @ ELSE @ \cup {"overwrite"}]
    ELSE [s EXCEPT !.ub = @ \cup {"wild_write"}]

\* alloc_traits::destroy(alloc_, b + i)
stack_destroy(s, b, i) ==
    IF CellInBuf(s, b, i) /\ s.bufs[b].cell[i] # NoVal
    THEN [s EXCEPT !.bufs[b].cell[i] = NoVal]
    ELSE [s EXCEPT !.ub = @ \cup {"bad_destroy"}]

\* b[i] read as a value
stack_read(s, b, i) ==
    IF CellInBuf(s, b, i) /\ s.bufs[b].cell[i] # NoVal THEN s.bufs[b].cell[i] ELSE Junk

\* the undefined behaviour a read of b[i] is, if it is one
StackReadUB(s, b, i) ==
    IF CellInBuf(s, b, i) /\ s.bufs[b].cell[i] # NoVal THEN {} ELSE {"junk_read"}

\* the loop of grow: construct new_data[i] from data_[i], destroy data_[i]
RECURSIVE move_elements(_, _, _)
move_elements(s, new_data, i) ==
    IF i >= s.d.size_ THEN s
    ELSE move_elements(
            stack_destroy(
               stack_construct([s EXCEPT !.ub = @ \cup StackReadUB(s, s.d.data_, i)],
                               new_data, i, stack_read(s, s.d.data_, i)),
               s.d.data_, i),
            new_data, i + 1)

\* grow adopting the new buffer without moving the elements into it
grow_without_move(s, fail) ==
    LET new_capacity == IF s.d.capacity_ = 0 THEN INITIAL_CAPACITY ELSE s.d.capacity_ * 2
        adopt(c, new_data) == [c EXCEPT !.d.data_ = new_data, !.d.capacity_ = new_capacity]
        release(b, new_data) ==
            adopt(IF b.d.data_ # 0 THEN stack_deallocate(b, b.d.data_) ELSE b, new_data)
        move(a) == IF a.thrown # "" THEN a ELSE release(a, a.ret)
    IN move(stack_allocate(s, new_capacity, fail))

\* stack::grow (the elements are move-constructed; with a T whose copy does
\* not throw the other branch has the same effect)
grow(s, fail) ==
    LET new_capacity == IF s.d.capacity_ = 0 THEN INITIAL_CAPACITY ELSE s.d.capacity_ * 2
        adopt(c, new_data) == [c EXCEPT !.d.data_ = new_data, !.d.capacity_ = new_capacity]
        release(b, new_data) ==
            adopt(IF b.d.data_ # 0 THEN stack_deallocate(b, b.d.data_) ELSE b, new_data)
        move(a) == IF a.thrown # "" THEN a
                   ELSE release(move_elements(a, a.ret, 0), a.ret)
    IN move(stack_allocate(s, new_capacity, fail))

\* stack::empty, stack::size
empty(s) == s.d.size_ = 0
size(s) == s.d.size_

\* stack::push (both overloads)
push(s, value, fail) ==
    LET put(a) == IF a.thrown # "" THEN a
                  ELSE [stack_construct(a, a.d.data_, a.d.size_, value)
                           EXCEPT !.d.size_ = @ + 1]
    IN put(IF s.d.size_ = s.d.capacity_ THEN grow(s, fail) ELSE s)

\* stack::emplace : returns data_[size_++]
emplace(s, value, fail) ==
    LET give(b) == [b EXCEPT !.ret = stack_read(b, b.d.data_, b.d.size_),
                             !.ub = @ \cup StackReadUB(b, b.d.data_, b.d.size_),
                             !.d.size_ = @ + 1]
        put(a) == IF a.thrown # "" THEN a
                  ELSE give(stack_construct(a, a.d.data_, a.d.size_, value))
    IN put(IF s.d.size_ = s.d.capacity_ THEN grow(s, fail) ELSE s)

\* pop without the test for an empty stack
pop_unchecked(s) ==
    LET drop(a) == stack_destroy(a, a.d.data_, a.d.size_)
    IN drop([s EXCEPT !.d.size_ = @ - 1])

\* stack::pop
pop(s) ==
    LET drop(a) == stack_destroy(a, a.d.data_, a.d.size_)
    IN IF empty(s) THEN [s EXCEPT !.thrown = "out_of_range"]
       ELSE drop([s EXCEPT !.d.size_ = @ - 1])

\* stack::top
top(s) ==
    IF empty(s) THEN [s EXCEPT !.thrown = "out_of_range"]
    ELSE [s EXCEPT !.ret = stack_read(s, s.d.data_, s.d.size_ - 1),
                   !.ub = @ \cup StackReadUB(s, s.d.data_, s.d.size_ - 1)]

\* stack::at
at(s, pos) ==
    IF pos >= s.d.size_ THEN [s EXCEPT !.thrown = "out_of_range"]
    ELSE [s EXCEPT !.ret = stack_read(s, s.d.data_, pos),
                   !.ub = @ \cup StackReadUB(s, s.d.data_, pos)]

\* the machine state seen by a call on the stack with data members d
StackS(d) == [bufs |-> sbufs, d |-> d, thrown |-> "", ret |-> 0, ub |-> {}]

\* stack<T> stk; : the default constructor allocates nothing
InitStack ==
    /\ sbufs = <<>>
    /\ stk = NullStack
    /\ smodel = <<>>
    /\ npush = 0 /\ npop = 0 /\ sfails = 0
    /\ sop = [name |-> "stack", thrown |-> "", ret |-> 0, ub |-> {}]
    /\ DequeIdle /\ BlockIdle /\ SetIdle /\ ListIdle

\* the effect of a call on stk that ended in machine state r
StackCommit(name, r) ==
    /\ sbufs' = r.bufs
    /\ stk' = r.d
    /\ sop' = [name |-> name, thrown |-> r.thrown, ret |-> r.ret, ub |-> r.ub]
    /\ sfails' = IF r.thrown = "bad_alloc" THEN sfails + 1 ELSE sfails

\* an allocation failure can be injected where the call allocates
StackFails == IF sfails < MaxFails /\ stk.size_ = stk.capacity_ THEN {FALSE, TRUE} ELSE {FALSE}

\* the k-th value pushed is k
PushVal(k) == k

Push ==
    /\ npush < MaxPush
    /\ \E fail \in StackFails :
          LET done(r) == /\ StackCommit("push", r)
                         /\ npush' = IF r.thrown = "" THEN npush + 1 ELSE npush
                         /\ smodel' = IF r.thrown = "" THEN Append(smodel, PushVal(npush + 1))
                                      ELSE smodel
          IN done(push(StackS(stk), PushVal(npush + 1), fail))
    /\ UNCHANGED npop
    /\ UNCHANGED nonStack

Emplace ==
    /\ npush < MaxPush
    /\ \E fail \in StackFails :
          LET done(r) == /\ StackCommit("emplace", r)
                         /\ npush' = IF r.thrown = "" THEN npush + 1 ELSE npush
                         /\ smodel' = IF r.thrown = "" THEN Append(smodel, PushVal(npush + 1))
                                      ELSE smodel
          IN done(emplace(StackS(stk), PushVal(npush + 1), fail))
    /\ UNCHANGED npop
    /\ UNCHANGED nonStack

Pop ==
    /\ npop < MaxPop \/ smodel = <<>>
    /\ LET done(r) == /\ StackCommit("pop", r)
                      /\ npop' = IF r.thrown = "" THEN npop + 1 ELSE npop
                      /\ smodel' = IF r.thrown = "" THEN SubSeq(smodel, 1, Len(smodel) - 1)
                                   ELSE smodel
       IN done(pop(StackS(stk)))
    /\ UNCHANGED npush
    /\ UNCHANGED nonStack

Top ==
    /\ StackCommit("top", top(StackS(stk)))
    /\ UNCHANGED <<smodel, npush, npop>>
    /\ UNCHANGED nonStack

\* at(pos) for the first, the last, the first invalid and a later position
At ==
    /\ \E pos \in {0, stk.size_ - 1, stk.size_, stk.size_ + 1} \cap Nat :
          StackCommit("at", at(StackS(stk), pos))
    /\ UNCHANGED <<smodel, npush, npop>>
    /\ UNCHANGED nonStack

NextStack ==
    \/ Push
    \/ Emplace
    \/ Pop
    \/ Top
    \/ At

SpecStack == InitStack /\ [][NextStack]_vars

\* the elements the stack stores, bottom first
Stored == [i \in 1..stk.size_ |-> stack_read(StackS(stk), stk.data_, i - 1)]

\* C30: stack is LIFO: after any sequence of push / emplace / pop calls,
\* including those that grow the buffer, size() is pushes minus successful
\* pops, top() returns the most recently pushed value not yet popped and the
\* stored elements are the remaining pushed values in push order.
C30_StackIsLifo ==
    /\ size(StackS(stk)) = npush - npop
    /\ Stored = smodel
    /\ \A i \in 0..(stk.size_ - 1) : StackReadUB(StackS(stk), stk.data_, i) = {}
    /\ sop.ub = {}
    /\ smodel # <<>> => /\ top(StackS(stk)).thrown = ""
                        /\ top(StackS(stk)).ret = smodel[Len(smodel)]
    /\ (sop.name = "top" /\ sop.thrown = "") => sop.ret = smodel[Len(smodel)]
    /\ (sop.name = "emplace" /\ sop.thrown = "") => sop.ret = npush

\* C30 witness: after two growths and a pop, top() has returned a value
C30_Witness ==
    /\ sop.name = "top" /\ sop.thrown = ""
    /\ npop > 0
    /\ stk.capacity_ = 2 * INITIAL_CAPACITY
    /\ stk.size_ > INITIAL_CAPACITY


\* the call ended by throwing out_of_range and changed nothing
Refused(r) == r.thrown = "out_of_range" /\ r.d = stk /\ r.bufs = sbufs /\ r.ub = {}

\* C31: pop() or top() on an empty stack, or at(pos) with pos >= size(),
\* signals out_of_range and leaves size, capacity and all stored elements
\* unchanged.
C31_EmptyAccessThrows ==
    [][/\ empty(StackS(stk)) => Refused(pop(StackS(stk))) /\ Refused(top(StackS(stk)))
       /\ \A pos \in stk.size_..(stk.size_ + 2) : Refused(at(StackS(stk), pos))
       /\ sop'.thrown = "out_of_range" =>
             /\ stk' = stk /\ sbufs' = sbufs /\ smodel' = smodel
             /\ sop'.name \in {"pop", "top", "at"}
       /\ (sop' # sop /\ sop'.name \in {"pop", "top"} /\ empty(StackS(stk))) =>
             sop'.thrown = "out_of_range"]_vars

\* C31 witness: pop() has thrown on a stack emptied after pushes
C31_Witness ==
    /\ sop.name = "pop" /\ sop.thrown = "out_of_range"
    /\ npush > 0 /\ stk.size_ = 0 /\ stk.capacity_ = INITIAL_CAPACITY


\* ---------------------------------------------------------------------------
\* unordered_set<int> (src/include/unordered_set/unordered_set.h)
\*
\* A hash node is [live, value, next]; a bucket array is [live, size, slot],
\* slot[i] the head of chain i; 0 is nullptr.  max_load_factor_ keeps its
\* default in every run.
\* ---------------------------------------------------------------------------

SetKeys == 0..MaxKey

\* std::hash<int>
hash_(key) == key

\* a node and a bucket array after deallocation: nothing of them is read again
freed_node == [live |-> FALSE, value |-> 0, next |-> 0]

freed_buckets == [live |-> FALSE, size |-> 0, slot |-> <<>>]

\* what a modulo by zero may do: stop the program, or yield an index into a
\* bucket array that has no slot, where a read finds no node and a write
\* lands outside the array
ModZeroOutcomes == {"trap", "stray"}

\* the machine state seen by a call on the set with data members d
SetS(d) == [nodes |-> unodes, arrs |-> uarrs, d |-> d, ret |-> 0, ub |-> {},
            trap |-> FALSE]

trapped(s) == [s EXCEPT !.trap = TRUE, !.ub = @ \cup {"mod_zero"}]

strayed(s) == [s EXCEPT !.ub = @ \cup {"mod_zero", "wild_bucket"}]

new_buckets(count) == [live |-> TRUE, size |-> count, slot |-> [i \in 0..(count - 1) |-> 0]]

allocate_buckets(s, count) ==
    [s EXCEPT !.arrs = Append(@, new_buckets(count)),
              !.d.buckets_ = Len(s.arrs) + 1,
              !.d.bucket_count_ = count]

deallocate_buckets(s) ==
    IF s.d.buckets_ # 0
    THEN [s EXCEPT !.arrs[s.d.buckets_] = freed_buckets, !.d.buckets_ = 0]
    ELSE s

\* buckets_[i]
bucket_read(s, i) == s.arrs[s.d.buckets_].slot[i]

RECURSIVE free_chain(_, _)
free_chain(s, node) ==
    IF node = 0 THEN s
    ELSE free_chain([s EXCEPT !.nodes[node] = freed_node], s.nodes[node].next)

RECURSIVE clear_buckets(_, _)
clear_buckets(s, i) ==
    IF i >= s.d.bucket_count_ THEN s
    ELSE LET emptied(a) == [a EXCEPT !.arrs[a.d.buckets_].slot[i] = 0]
         IN clear_buckets(emptied(free_chain(s, bucket_read(s, i))), i + 1)

clear_all_nodes(s) ==
    LET zero(a) == [a EXCEPT !.d.size_ = 0]
    IN zero(clear_buckets(s, 0))

bucket_index(s, key) == hash_(key) % s.d.bucket_count_

\* the inner loop of rehash_impl: move one chain into the array nb of n buckets
RECURSIVE rehash_chain(_, _, _, _)
rehash_chain(s, nb, n, node) ==
    IF node = 0 THEN s
    ELSE IF n = 0 THEN trapped(s)
    ELSE LET new_idx == hash_(s.nodes[node].value) % n
         IN rehash_chain([s EXCEPT !.nodes[node].next = s.arrs[nb].slot[new_idx],
                                   !.arrs[nb].slot[new_idx] = node],
                         nb, n, s.nodes[node].next)

RECURSIVE rehash_buckets(_, _, _, _)
rehash_buckets(s, nb, n, i) ==
    IF i >= s.d.bucket_count_ THEN s
    ELSE rehash_buckets(rehash_chain(s, nb, n, bucket_read(s, i)), nb, n, i + 1)

rehash_impl(s, new_bucket_count) ==
    LET n == IF new_bucket_count < s.d.size_ \div default_max_load_factor
             THEN s.d.size_ \div default_max_load_factor + 1
             ELSE new_bucket_count
        nb == Len(s.arrs) + 1
        adopt(a) == [a EXCEPT !.d.buckets_ = nb, !.d.bucket_count_ = n]
        moved(a) == adopt(deallocate_buckets(rehash_buckets(a, nb, n, 0)))
    IN moved([s EXCEPT !.arrs = Append(@, new_buckets(n))])

check_and_rehash(s) ==
    IF s.d.size_ + 1 > s.d.bucket_count_ * default_max_load_factor
    THEN rehash_impl(s, s.d.bucket_count_ * 2)
    ELSE s

\* unordered_set(size_type bucket_count), and the default constructor for 0
set_ctor(bucket_count) ==
    allocate_buckets([nodes |-> <<>>, arrs |-> <<>>, d |-> NullSet, ret |-> 0,
                      ub |-> {}, trap |-> FALSE],
                     IF bucket_count > 0 THEN bucket_count ELSE default_bucket_count)

\* the while (node) loop of insert, emplace, erase and find: the node of the
\* chain that holds key, or nullptr
RECURSIVE find_node(_, _, _)
find_node(s, node, key) ==
    IF node = 0 THEN 0
    ELSE IF s.nodes[node].value = key THEN node
    ELSE find_node(s, s.nodes[node].next, key)

\* prev when that loop stops at node
RECURSIVE prev_node(_, _, _)
prev_node(s, cur, node) ==
    IF cur = node THEN 0
    ELSE IF s.nodes[cur].next = node THEN cur
    ELSE prev_node(s, s.nodes[cur].next, node)

set_insert(s, value, g) ==
    LET link(a, idx) ==
            [a EXCEPT !.nodes = Append(@, [live |-> TRUE, value |-> value,
                                           next |-> bucket_read(a, idx)]),
                      !.arrs[a.d.buckets_].slot[idx] = Len(a.nodes) + 1,
                      !.d.size_ = @ + 1, !.ret = 1]
        lost(a) ==
            [a EXCEPT !.nodes = Append(@, [live |-> TRUE, value |-> value, next |-> 0]),
                      !.d.size_ = @ + 1, !.ret = 1]
        scan(a, idx) ==
            IF find_node(a, bucket_read(a, idx), value) # 0
            THEN [a EXCEPT !.ret = 0]
            ELSE link(a, idx)
        body(a) ==
            IF a.d.bucket_count_ = 0
            THEN IF g = "trap" THEN trapped(a) ELSE lost(strayed(a))
            ELSE scan(a, bucket_index(a, value))
    IN body(check_and_rehash(s))

set_emplace(s, value, g) ==
    LET temp_node == Len(s.nodes) + 1
        link(a, idx) ==
            [a EXCEPT !.nodes[temp_node].next = bucket_read(a, idx),
                      !.arrs[a.d.buckets_].slot[idx] = temp_node,
                      !.d.size_ = @ + 1, !.ret = 1]
        lost(a) == [a EXCEPT !.d.size_ = @ + 1, !.ret = 1]
        place(a) ==
            IF a.d.bucket_count_ = 0
            THEN IF g = "trap" THEN trapped(a) ELSE lost(strayed(a))
            ELSE link(a, bucket_index(a, value))
        scan(a, idx) ==
            IF find_node(a, bucket_read(a, idx), value) # 0
            THEN [a EXCEPT !.nodes[temp_node] = freed_node, !.ret = 0]
            ELSE place(check_and_rehash(a))
        body(a) ==
            IF a.d.bucket_count_ = 0
            THEN IF g = "trap" THEN trapped(a) ELSE place(check_and_rehash(strayed(a)))
            ELSE scan(a, bucket_index(a, value))
    IN body([s EXCEPT !.nodes = Append(@, [live |-> TRUE, value |-> value, next |-> 0])])

set_erase(s, key, g) ==
    LET unlink(a, idx, node, prev) ==
            IF prev # 0
            THEN [a EXCEPT !.nodes[prev].next = a.nodes[node].next,
                           !.nodes[node] = freed_node,
                           !.d.size_ = @ - 1, !.ret = 1]
            ELSE [a EXCEPT !.arrs[a.d.buckets_].slot[idx] = a.nodes[node].next,
                           !.nodes[node] = freed_node,
                           !.d.size_ = @ - 1, !.ret = 1]
        found(a, idx, node) ==
            IF node = 0 THEN [a EXCEPT !.ret = 0]
            ELSE unlink(a, idx, node, prev_node(a, bucket_read(a, idx), node))
        scan(a, idx) == found(a, idx, find_node(a, bucket_read(a, idx), key))
    IN IF s.d.bucket_count_ = 0
       THEN IF g = "trap" THEN trapped(s) ELSE [strayed(s) EXCEPT !.ret = 0]
       ELSE scan(s, bucket_index(s, key))

\* find: 1 when an iterator to a node is returned, 0 when end() is
set_find(s, key, g) ==
    LET scan(a, idx) ==
            [a EXCEPT !.ret = IF find_node(a, bucket_read(a, idx), key) # 0 THEN 1 ELSE 0]
    IN IF s.d.bucket_count_ = 0
       THEN IF g = "trap" THEN trapped(s) ELSE [strayed(s) EXCEPT !.ret = 0]
       ELSE scan(s, bucket_index(s, key))

set_clear(s) == clear_all_nodes(s)

rehash(s, count) == rehash_impl(s, count)

reserve(s, count) == rehash(s, count \div default_max_load_factor + 1)

InitSet ==
    /\ \E n \in 0..MaxCount :
          LET made(r) == /\ unodes = r.nodes /\ uarrs = r.arrs /\ uset = r.d
                         /\ uop = [name |-> "ctor", key |-> n, ret |-> 0, ub |-> {}]
          IN made(set_ctor(n))
    /\ uset2 = NullSet
    /\ upc = "live"
    /\ DequeIdle /\ BlockIdle /\ StackIdle /\ ListIdle

\* the state a call leaves
SetCommit(name, key, r) ==
    /\ unodes' = r.nodes
    /\ uarrs' = r.arrs
    /\ uset' = r.d
    /\ upc' = IF r.trap THEN "trapped" ELSE "live"
    /\ uop' = [name |-> name, key |-> key, ret |-> r.ret, ub |-> r.ub]

MayAllocate == Len(unodes) < MaxNodeAllocs /\ Len(uarrs) < MaxArrayAllocs

SetInsert ==
    /\ upc = "live" /\ MayAllocate
    /\ \E value \in SetKeys, g \in ModZeroOutcomes :
          SetCommit("insert", value, set_insert(SetS(uset), value, g))
    /\ UNCHANGED uset2
    /\ UNCHANGED nonSet

SetEmplace ==
    /\ upc = "live" /\ MayAllocate
    /\ \E value \in SetKeys, g \in ModZeroOutcomes :
          SetCommit("emplace", value, set_emplace(SetS(uset), value, g))
    /\ UNCHANGED uset2
    /\ UNCHANGED nonSet

SetErase ==
    /\ upc = "live"
    /\ \E key \in SetKeys, g \in ModZeroOutcomes :
          SetCommit("erase", key, set_erase(SetS(uset), key, g))
    /\ UNCHANGED uset2
    /\ UNCHANGED nonSet

SetFind ==
    /\ upc = "live"
    /\ \E key \in SetKeys, g \in ModZeroOutcomes :
          SetCommit("find", key, set_find(SetS(uset), key, g))
    /\ UNCHANGED uset2
    /\ UNCHANGED nonSet

SetClear ==
    /\ upc = "live"
    /\ SetCommit("clear", 0, set_clear(SetS(uset)))
    /\ UNCHANGED uset2
    /\ UNCHANGED nonSet

SetRehash ==
    /\ upc = "live" /\ MayAllocate
    /\ \E count \in 0..MaxCount :
          SetCommit("rehash", count, rehash(SetS(uset), count))
    /\ UNCHANGED uset2
    /\ UNCHANGED nonSet

SetReserve ==
    /\ upc = "live" /\ MayAllocate
    /\ \E count \in 0..MaxCount :
          SetCommit("reserve", count, reserve(SetS(uset), count))
    /\ UNCHANGED uset2
    /\ UNCHANGED nonSet

\* unordered_set t(std::move(s)) : t takes the buckets, s is left with none
SetMove ==
    /\ upc = "live" /\ uset2 = NullSet /\ uset.buckets_ # 0
    /\ uset2' = uset
    /\ uset' = NullSet
    /\ uop' = [name |-> "move", key |-> 0, ret |-> 0, ub |-> {}]
    /\ UNCHANGED <<unodes, uarrs, upc>>
    /\ UNCHANGED nonSet

NextSet ==
    \/ SetInsert \/ SetEmplace \/ SetErase \/ SetFind \/ SetClear
    \/ SetRehash \/ SetReserve \/ SetMove

SpecSet == InitSet /\ [][NextSet]_vars


\* the slots of the bucket array the set under test holds
Slots == IF uset.buckets_ = 0 THEN {} ELSE 0..(uarrs[uset.buckets_].size - 1)

\* the nodes of the chain that starts at node, followed for at most fuel links
RECURSIVE ChainFrom(_, _, _)
ChainFrom(nodes, node, fuel) ==
    IF node = 0 \/ fuel = 0 THEN <<>>
    ELSE <<node>> \o ChainFrom(nodes, nodes[node].next, fuel - 1)

\* the chain of bucket i, in the state (nodes, arrs, d)
ChainOf(nodes, arrs, d, i) == ChainFrom(nodes, arrs[d.buckets_].slot[i], Len(nodes) + 1)

Range(f) == {f[x] : x \in DOMAIN f}

\* the nodes chained in the buckets, and the keys they hold
ChainedIn(nodes, arrs, d) ==
    IF d.buckets_ = 0 THEN {}
    ELSE UNION {Range(ChainOf(nodes, arrs, d, i)) : i \in 0..(arrs[d.buckets_].size - 1)}

Elements == {unodes[n].value : n \in ChainedIn(unodes, uarrs, uset)}

ElementsAfter == {unodes'[n].value : n \in ChainedIn(unodes', uarrs', uset')}

RECURSIVE ChainedCount(_)
ChainedCount(i) ==
    IF i \notin Slots THEN 0
    ELSE Len(ChainOf(unodes, uarrs, uset, i)) + ChainedCount(i + 1)

\* size() counts the chained nodes, no key is held twice, every node is in
\* the bucket of its key
SetWellFormed ==
    /\ uset.size_ = ChainedCount(0)
    /\ uset.size_ = Cardinality(Elements)
    /\ \A i \in Slots : \A n \in Range(ChainOf(unodes, uarrs, uset, i)) :
          /\ unodes[n].live
          /\ uset.bucket_count_ > 0
          /\ hash_(unodes[n].value) % uset.bucket_count_ = i

\* C32: after any sequence of insert, emplace, erase, clear and rehash calls,
\* size() equals the number of nodes chained in the buckets, no two nodes hold
\* equal keys and every node lies in bucket hash(key) mod bucket_count; insert
\* returns false, leaving the element set unchanged, exactly when an equal key
\* is already present.
C32_SetWellFormed ==
    [][/\ uset2 = NullSet /\ uset2' = NullSet => SetWellFormed'
       /\ (uset2' = NullSet /\ uop'.name = "insert") =>
             /\ upc' = "live"
             /\ uop'.ret = 0 <=> uop'.key \in Elements
             /\ uop'.ret = 0 => ElementsAfter = Elements
             /\ uop'.ret = 1 => ElementsAfter = Elements \cup {uop'.key}]_vars


\* C33: in every state reachable by construction, insert, emplace, erase,
\* clear, rehash(n) for any n >= 0, reserve, and being the source of a move,
\* bucket_count is greater than zero, so no later find, insert or erase
\* computes a hash modulo zero.
C33_BucketCountPositive ==
    /\ upc = "live" => uset.bucket_count_ > 0
    /\ "mod_zero" \notin uop.ub


\* ---------------------------------------------------------------------------
\* list<int> (src/include/list/list.h)
\*
\* A node is [prev, next, data, live]; a list is known by its sentinel, which
\* is a node of the same heap with no data.  sz[L] is the sz member of the
\* list whose sentinel is L.
\* ---------------------------------------------------------------------------

ListA == 1

ListB == 2

Lists == {ListA, ListB}

ListData == 0..MaxData

\* NodeBase() : prev(this), next(this)
NodeBase(self) == [prev |-> self, next |-> self, data |-> 0, live |-> TRUE]

freed_list_node == [prev |-> 0, next |-> 0, data |-> 0, live |-> FALSE]

\* the machine state seen by a call on a list
ListS == [nodes |-> lnodes, sz |-> lsz]

\* the new node is Len(s.nodes) + 1
create_node(s, value) ==
    [s EXCEPT !.nodes = Append(@, [prev |-> 0, next |-> 0, data |-> value, live |-> TRUE])]

destroy_node(s, n) == [s EXCEPT !.nodes[n] = freed_list_node]

link_nodes(s, prev, next) ==
    [s EXCEPT !.nodes[prev].next = next, !.nodes[next].prev = prev]

insert_node(s, pos, n) ==
    LET second(a) == link_nodes(a, n, pos)
    IN second(link_nodes(s, s.nodes[pos].prev, n))

unlink_node(s, n) == link_nodes(s, s.nodes[n].prev, s.nodes[n].next)

list_begin(s, L) == s.nodes[L].next

list_empty(s, L) == s.sz[L] = 0

list_insert(s, L, pos, value) ==
    LET counted(a) == [a EXCEPT !.sz[L] = @ + 1]
    IN counted(insert_node(create_node(s, value), pos, Len(s.nodes) + 1))

list_erase(s, L, pos) ==
    LET counted(a) == [a EXCEPT !.sz[L] = @ - 1]
        destroyed(a) == destroy_node(a, pos)
    IN counted(destroyed(unlink_node(s, pos)))

list_push_back(s, L, value) == list_insert(s, L, L, value)

pop_back(s, L) == list_erase(s, L, s.nodes[L].prev)

list_push_front(s, L, value) == list_insert(s, L, list_begin(s, L), value)

pop_front(s, L) == list_erase(s, L, list_begin(s, L))

swap(s, L, O) ==
    LET sizes(a) == [a EXCEPT !.sz[L] = s.sz[O], !.sz[O] = s.sz[L]]
        alone(a, x) == [a EXCEPT !.nodes[x].next = x, !.nodes[x].prev = x]
        take(a, to, from, first, last) ==
            alone(link_nodes(link_nodes(a, to, first), last, to), from)
        both(a, this_first, this_last, other_first, other_last) ==
            link_nodes(link_nodes(link_nodes(link_nodes(a, L, other_first),
                                             other_last, L),
                                  O, this_first),
                       this_last, O)
    IN IF s.sz[L] = 0 /\ s.sz[O] = 0 THEN s
       ELSE IF s.sz[L] = 0
            THEN sizes(take(s, L, O, s.nodes[O].next, s.nodes[O].prev))
       ELSE IF s.sz[O] = 0
            THEN sizes(take(s, O, L, s.nodes[L].next, s.nodes[L].prev))
       ELSE sizes(both(s, s.nodes[L].next, s.nodes[L].prev,
                       s.nodes[O].next, s.nodes[O].prev))

\* std::distance(first, last)
RECURSIVE distance(_, _, _)
distance(s, first, last) ==
    IF first = last THEN 0 ELSE 1 + distance(s, s.nodes[first].next, last)

\* splice(pos, other, first, last) that leaves both sz members alone
splice_range_uncounted(s, L, pos, O, first, last) ==
    LET paste(a, last_prev) ==
            link_nodes(link_nodes(a, a.nodes[pos].prev, first), last_prev, pos)
        cut(a, last_prev) == paste(link_nodes(a, a.nodes[first].prev, last), last_prev)
    IN IF first = last THEN s
       ELSE cut(s, s.nodes[last].prev)

\* splice(pos, other, first, last)
splice_range(s, L, pos, O, first, last) ==
    LET counted(a, count) == [a EXCEPT !.sz[O] = @ - count, !.sz[L] = @ + count]
        paste(a, last_prev) ==
            link_nodes(link_nodes(a, a.nodes[pos].prev, first), last_prev, pos)
        cut(a, last_prev) == paste(link_nodes(a, a.nodes[first].prev, last), last_prev)
    IN IF first = last THEN s
       ELSE counted(cut(s, s.nodes[last].prev), distance(s, first, last))

\* splice(pos, other, it)
splice_one(s, L, pos, O, iter) ==
    LET counted(a) == [a EXCEPT !.sz[O] = @ - 1, !.sz[L] = @ + 1]
        moved(a) == insert_node(a, pos, iter)
    IN IF pos = iter \/ pos = s.nodes[iter].next THEN s
       ELSE counted(moved(unlink_node(s, iter)))

\* splice(pos, other)
splice(s, L, pos, O) ==
    IF list_empty(s, O) THEN s
    ELSE splice_range(s, L, pos, O, list_begin(s, O), O)

\* the Compare of merge and sort: std::less<int>
comp(a, b) == a < b

\* merge that also takes the other list's element when the two compare equal
RECURSIVE merge_loop_ties_from_other(_, _, _, _, _)
merge_loop_ties_from_other(s, L, O, it1, it2) ==
    IF it1 # L /\ it2 # O
    THEN IF ~comp(s.nodes[it1].data, s.nodes[it2].data)
         THEN merge_loop_ties_from_other(splice_one(s, L, it1, O, it2), L, O, it1, s.nodes[it2].next)
         ELSE merge_loop_ties_from_other(s, L, O, s.nodes[it1].next, it2)
    ELSE IF it2 # O THEN splice_range(s, L, L, O, it2, O)
    ELSE s

\* the loop of merge and the splice that follows it
RECURSIVE merge_loop(_, _, _, _, _)
merge_loop(s, L, O, it1, it2) ==
    IF it1 # L /\ it2 # O
    THEN IF comp(s.nodes[it2].data, s.nodes[it1].data)
         THEN merge_loop(splice_one(s, L, it1, O, it2), L, O, it1, s.nodes[it2].next)
         ELSE merge_loop(s, L, O, s.nodes[it1].next, it2)
    ELSE IF it2 # O THEN splice_range(s, L, L, O, it2, O)
    ELSE s

merge(s, L, O) ==
    IF L = O THEN s
    ELSE merge_loop(s, L, O, list_begin(s, L), list_begin(s, O))

\* the do-while of reverse, at curr
RECURSIVE reverse_from(_, _, _)
reverse_from(s, L, curr) ==
    LET onward(a) == IF a.nodes[curr].prev # L
                     THEN reverse_from(a, L, a.nodes[curr].prev)
                     ELSE a
    IN onward([s EXCEPT !.nodes[curr].prev = s.nodes[curr].next,
                        !.nodes[curr].next = s.nodes[curr].prev])

reverse(s, L) == IF s.sz[L] <= 1 THEN s ELSE reverse_from(s, L, L)

\* list carry; list counter[64]; : carry is the node after the heap of s,
\* counter[i] the one i + 1 after carry
sort_locals(s) ==
    LET base == Len(s.nodes)
        locals == (base + 1)..(base + 1 + SortCounters)
    IN [nodes |-> s.nodes \o [k \in 1..(1 + SortCounters) |-> NodeBase(base + k)],
        sz |-> [x \in DOMAIN s.sz \cup locals |-> IF x \in DOMAIN s.sz THEN s.sz[x] ELSE 0]]

\* the inner while of sort: the state it leaves and the i it stops at
RECURSIVE sort_carry(_, _, _, _)
sort_carry(s, carry, i, fill) ==
    LET counter == carry + 1 + i
        swapped(a) == swap(a, carry, counter)
    IN IF i < fill /\ ~list_empty(s, counter)
       THEN sort_carry(swapped(merge(s, counter, carry)), carry, i + 1, fill)
       ELSE [s |-> s, i |-> i]

\* the for loop of sort, at i
RECURSIVE sort_collect(_, _, _, _)
sort_collect(s, carry, i, fill) ==
    IF i < fill
    THEN sort_collect(merge(s, carry + 1 + i, carry + i), carry, i + 1, fill)
    ELSE s

\* the outer while of sort, and what follows it
RECURSIVE sort_loop(_, _, _, _)
sort_loop(s, L, carry, fill) ==
    LET placed(r) == sort_loop(swap(r.s, carry, carry + 1 + r.i), L, carry,
                               IF r.i = fill THEN fill + 1 ELSE fill)
        carried(a) == placed(sort_carry(a, carry, 0, fill))
        final(a) == swap(a, L, carry + fill)
    IN IF ~list_empty(s, L)
       THEN carried(splice_one(s, carry, list_begin(s, carry), L, list_begin(s, L)))
       ELSE final(sort_collect(s, carry, 1, fill))

\* the locals of sort go out of scope: each is an empty list by then
sort_return(s, r) ==
    [nodes |-> SubSeq(r.nodes, 1, Len(s.nodes)),
     sz |-> [x \in DOMAIN s.sz |-> r.sz[x]]]

sort(s, L) ==
    IF s.sz[L] <= 1 THEN s
    ELSE sort_return(s, sort_loop(sort_locals(s), L, Len(s.nodes) + 1, 0))

InitList ==
    /\ lnodes = <<NodeBase(ListA), NodeBase(ListB)>>
    /\ lsz = <<0, 0>>
    /\ lop = [name |-> "ctor", list |-> 0]
    /\ DequeIdle /\ BlockIdle /\ StackIdle /\ SetIdle

\* the state a call on list L leaves
ListCommit(name, L, r) ==
    /\ lnodes' = r.nodes
    /\ lsz' = r.sz
    /\ lop' = [name |-> name, list |-> L]

\* the nodes of list L from begin() to the last one, in the heap nodes
RECURSIVE RingFrom(_, _, _, _)
RingFrom(nodes, L, n, fuel) ==
    IF n = L \/ n = 0 \/ fuel = 0 THEN <<>>
    ELSE <<n>> \o RingFrom(nodes, L, nodes[n].next, fuel - 1)

Ring(nodes, L) == RingFrom(nodes, L, nodes[L].next, Len(nodes))

\* the valid iterators of list L: its nodes and end()
Iterators(L) == Range(Ring(lnodes, L)) \cup {L}

ListInsert ==
    /\ Len(lnodes) < 2 + MaxListNodes
    /\ \E L \in Lists : \E pos \in Iterators(L), value \in ListData :
          ListCommit("insert", L, list_insert(ListS, L, pos, value))
    /\ UNCHANGED nonList

ListErase ==
    /\ \E L \in Lists : \E pos \in Iterators(L) \ {L} :
          ListCommit("erase", L, list_erase(ListS, L, pos))
    /\ UNCHANGED nonList

ListPushBack ==
    /\ Len(lnodes) < 2 + MaxListNodes
    /\ \E L \in Lists, value \in ListData :
          ListCommit("push_back", L, list_push_back(ListS, L, value))
    /\ UNCHANGED nonList

ListPushFront ==
    /\ Len(lnodes) < 2 + MaxListNodes
    /\ \E L \in Lists, value \in ListData :
          ListCommit("push_front", L, list_push_front(ListS, L, value))
    /\ UNCHANGED nonList

ListPopBack ==
    /\ \E L \in Lists :
          /\ ~list_empty(ListS, L)
          /\ ListCommit("pop_back", L, pop_back(ListS, L))
    /\ UNCHANGED nonList

ListPopFront ==
    /\ \E L \in Lists :
          /\ ~list_empty(ListS, L)
          /\ ListCommit("pop_front", L, pop_front(ListS, L))
    /\ UNCHANGED nonList

ListSplice ==
    /\ \E L \in Lists, O \in Lists :
          /\ L # O
          /\ \E pos \in Iterators(L) :
                ListCommit("splice", L, splice(ListS, L, pos, O))
    /\ UNCHANGED nonList

ListSpliceOne ==
    /\ \E L \in Lists, O \in Lists :
          /\ L # O
          /\ \E pos \in Iterators(L), iter \in Iterators(O) \ {O} :
                ListCommit("splice_one", L, splice_one(ListS, L, pos, O, iter))
    /\ UNCHANGED nonList

\* [first, last) is a range of O: last is first or comes after it
ListSpliceRange ==
    /\ \E L \in Lists, O \in Lists :
          /\ L # O
          /\ \E pos \in Iterators(L), first \in Iterators(O), last \in Iterators(O) :
                /\ last \in Range(RingFrom(lnodes, O, first, Len(lnodes))) \cup {O}
                /\ ListCommit("splice_range", L, splice_range(ListS, L, pos, O, first, last))
    /\ UNCHANGED nonList

ListSwap ==
    /\ \E L \in Lists, O \in Lists :
          /\ L # O
          /\ ListCommit("swap", L, swap(ListS, L, O))
    /\ UNCHANGED nonList

ListReverse ==
    /\ \E L \in Lists : ListCommit("reverse", L, reverse(ListS, L))
    /\ UNCHANGED nonList

ListMerge ==
    /\ \E L \in Lists, O \in Lists :
          /\ L # O
          /\ ListCommit("merge", L, merge(ListS, L, O))
    /\ UNCHANGED nonList

ListSort ==
    /\ \E L \in Lists : ListCommit("sort", L, sort(ListS, L))
    /\ UNCHANGED nonList

NextList ==
    \/ ListInsert \/ ListErase \/ ListPushBack \/ ListPushFront
    \/ ListPopBack \/ ListPopFront
    \/ ListSplice \/ ListSpliceOne \/ ListSpliceRange
    \/ ListSwap \/ ListReverse \/ ListMerge \/ ListSort

SpecList == InitList /\ [][NextList]_vars


\* list L is a closed ring through its sentinel, linked both ways, of sz live
\* nodes
RingClosed(L) ==
    LET ring == Ring(lnodes, L)
        last == IF ring = <<>> THEN L ELSE ring[Len(ring)]
    IN /\ lnodes[last].next = L
       /\ Cardinality(Range(ring)) = Len(ring)
       /\ \A n \in Range(ring) \cup {L} :
             /\ lnodes[n].live
             /\ lnodes[n].next \in 1..Len(lnodes)
             /\ lnodes[lnodes[n].next].prev = n
       /\ lsz[L] = Len(ring)

\* C34: after any sequence of list operations with valid arguments (insert,
\* erase, push and pop at either end, splice between two lists, swap, reverse,
\* merge), each list's nodes form a closed ring through its own sentinel with
\* n.next.prev == n for every node, size() equals the number of non-sentinel
\* nodes in that ring, and no node belongs to two lists.
C34_ListsAreRings ==
    lnodes # <<>> =>
        /\ \A L \in Lists : RingClosed(L)
        /\ Range(Ring(lnodes, ListA)) \cap Range(Ring(lnodes, ListB)) = {}
        /\ \A L \in Lists : Range(Ring(lnodes, L)) \cap Lists = {}

\* C34 witness: splice(pos, other, first, last) has left two nodes in the
\* list it was called on and one in the other
C34_Witness ==
    /\ lop.name = "splice_range"
    /\ lsz[lop.list] = 2
    /\ \E O \in Lists \ {lop.list} : lsz[O] = 1


\* where x stands in the sequence seq
Pos(seq, x) == CHOOSE i \in 1..Len(seq) : seq[i] = x

\* the step sorted list L
SortedBy(L) ==
    LET before == Ring(lnodes, L)
        after == Ring(lnodes', L)
        tied(m, n) == ~comp(lnodes[m].data, lnodes[n].data) /\ ~comp(lnodes[n].data, lnodes[m].data)
    IN /\ Len(after) = Len(before)
       /\ Range(after) = Range(before)
       /\ \A n \in Range(before) : lnodes'[n].data = lnodes[n].data
       /\ \A i \in 1..Len(after) : \A j \in 1..Len(after) :
             i < j => ~comp(lnodes'[after[j]].data, lnodes'[after[i]].data)
       /\ \A i \in 1..Len(before) : \A j \in 1..Len(before) :
             (i < j /\ tied(before[i], before[j])) =>
                 Pos(after, before[i]) < Pos(after, before[j])
       /\ lsz'[L] = lsz[L]
       /\ lsz'[L] = Len(after)

\* C35: sort(comp) leaves the list holding a permutation of its previous
\* elements in non-decreasing order under comp, with size unchanged and
\* elements that compare equal kept in their original relative order.
C35_SortIsStable ==
    [][lop'.name = "sort" => SortedBy(lop'.list)]_vars

\* C35 witness: sort has been called on a list of three nodes, two of them
\* equal, that were not linked in the order they were allocated in
C35_Witness ==
    /\ lop.name = "sort"
    /\ LET ring == Ring(lnodes, lop.list)
       IN /\ Len(ring) = 3
          /\ lnodes[ring[1]].data = lnodes[ring[2]].data
          /\ lnodes[ring[2]].data < lnodes[ring[3]].data
          /\ ring[1] > ring[3]

====
